---------------------------- MODULE Spec2Model ----------------------------
(***************************************************************************)
(* Model of the ed25519 precompile (src/src/ed25519.rs).                   *)
(*                                                                         *)
(* A call of ed25519_verify(input, gas_limit) is a small sequential        *)
(* program; each statement of ed25519_verify / verify_impl is one action   *)
(* and pc[c] is the position of call c.  Several calls may be in flight    *)
(* (the host may invoke the precompile from many threads); every variable  *)
(* is a function of the call, as every datum of the Rust code is a local   *)
(* or an argument.                                                         *)
(*                                                                         *)
(* Inputs are real byte sequences with the layout of the source            *)
(* (64 + 64 + 32 = 160 bytes, then an optional tail).                      *)
(*                                                                         *)
(* The curve arithmetic of the external crate ed25519-dalek works in the   *)
(* field of 2^255 - 19 elements, beyond TLC's integers.  It is modelled by *)
(* the same algorithm (twisted Edwards point decompression, a = -1) over   *)
(* the field of FieldPrime elements; the 32 bytes of a key are still read  *)
(* as a little-endian integer with the top bit as the sign of x.           *)
(***************************************************************************)
EXTENDS Integers, Sequences, FiniteSets

(***************************************************************************)
(* Program constants                                                       *)
(***************************************************************************)
\* src/src/ed25519.rs:21  const ED25519VERIFY_BASE: u64 = 3_450;
ED25519VERIFY_BASE == 3450

\* src/src/ed25519.rs:61  if input.len() < 160
INPUT_LEN == 160

\* src/src/ed25519.rs:66  msg: &[u8; 64] = input[..64]
MSG_LEN == 64

\* src/src/ed25519.rs:68  sig: &[u8; 64] = input[64..128]
SIG_LEN == 64

\* src/src/ed25519.rs:70  pk: &[u8; 32] = input[128..160]
PK_LEN == 32

\* src/src/ed25519.rs:53  B256: a 32-byte word
B256_LEN == 32

(***************************************************************************)
(* Bounds of the model                                                     *)
(***************************************************************************)
\* longest input: the 160-byte window and MaxLen - 160 trailing bytes
MaxLen == 162

\* gas limits tried: 0 and ED25519VERIFY_BASE - GasSlack .. + GasSlack
GasSlack == 1

\* first bytes tried for the public key and for R: 0 .. MaxCoord
MaxCoord == 12

\* first bytes tried for the scalar s of the signature: 0 .. MaxScalar
MaxScalar == 5

\* input lengths of the two concurrent calls: 160 - PairSlack .. 160 + PairSlack
PairSlack == 1

\* first bytes tried for the public keys of the two concurrent calls
MaxPairCoord == 3

(***************************************************************************)
(* Bytes                                                                   *)
(***************************************************************************)
Zeros(n) == [i \in 1..n |-> 0]

\* The slice s[from..to] of Rust (0-based, `to` exclusive).
Slice(s, from, to) == SubSeq(s, from + 1, to)

\* The little-endian integer held in bytes[i..], reduced modulo m.
RECURSIVE LittleEndianMod(_, _, _)
LittleEndianMod(bytes, i, m) ==
    IF i > Len(bytes) THEN 0
    ELSE (bytes[i] + 256 * LittleEndianMod(bytes, i + 1, m)) % m

\* The sum of bytes[lo..hi] (1-based, both ends included), by halves.
RECURSIVE SumBytes(_, _, _)
SumBytes(bytes, lo, hi) ==
    IF lo > hi THEN 0
    ELSE IF lo = hi THEN bytes[lo]
    ELSE LET mid == (lo + hi) \div 2
         IN  SumBytes(bytes, lo, mid) + SumBytes(bytes, mid + 1, hi)

(***************************************************************************)
(* VerifyingKey::from_bytes (ed25519-dalek), called at ed25519.rs:75:      *)
(* CompressedEdwardsY::decompress.  y is the little-endian integer of the  *)
(* 32 bytes with bit 255 cleared, bit 255 is the sign of x; the bytes are  *)
(* a key iff (y^2 - 1) / (d y^2 + 1) is a square of the field.             *)
(***************************************************************************)
FieldPrime == 13

EDWARDS_D == 6

NoPoint == [ok |-> FALSE, x |-> 0, y |-> 0]

from_bytes(bytes) ==
    LET masked == [bytes EXCEPT ![PK_LEN] = bytes[PK_LEN] % 128]
        sign   == bytes[PK_LEN] \div 128
        y      == LittleEndianMod(masked, 1, FieldPrime)
        u      == (y * y + FieldPrime - 1) % FieldPrime
        v      == (EDWARDS_D * y * y + 1) % FieldPrime
        roots  == {x \in 0..(FieldPrime - 1) : (v * x * x) % FieldPrime = u}
    IN  IF roots = {} THEN NoPoint
        ELSE LET nonneg == {x \in roots : x % 2 = 0}
                 x0 == IF nonneg # {} THEN CHOOSE x \in nonneg : TRUE
                       ELSE CHOOSE x \in roots : TRUE
                 x  == IF sign = 1 THEN (FieldPrime - x0) % FieldPrime ELSE x0
             IN  [ok |-> TRUE, x |-> x, y |-> y]

\* Signature::from_slice (ed25519 crate), called at ed25519.rs:73: an error
\* iff the slice is not SIG_LEN bytes long.
from_slice(bytes) ==
    IF Len(bytes) = SIG_LEN
    THEN [ok |-> TRUE, R |-> Slice(bytes, 0, 32), s |-> Slice(bytes, 32, 64)]
    ELSE [ok |-> FALSE, R |-> <<>>, s |-> <<>>]

\* B256::with_last_byte(b): 32 bytes, all zero but the last
with_last_byte(b) == [i \in 1..B256_LEN |-> IF i = B256_LEN THEN b ELSE 0]

\* `result as u8`
as_u8(b) == IF b THEN 1 ELSE 0

(***************************************************************************)
(* State: one entry per call in flight                                     *)
(***************************************************************************)
VARIABLES
    input,       \* ed25519_verify's argument `input`
    gas_limit,   \* ed25519_verify's argument `gas_limit`
    pc,          \* the statement the call is at
    msg,         \* verify_impl's local `msg`
    sig,         \* verify_impl's local `sig`
    pk,          \* verify_impl's local `pk`
    signature,   \* verify_impl's local `signature`
    public_key,  \* verify_impl's local `public_key`
    verified,    \* what verify_impl returned: "Some", "None" ("" before)
    ret,         \* how the call ended
    trace        \* history: the statements the call has executed, in order

vars == <<input, gas_limit, pc, msg, sig, pk, signature, public_key,
          verified, ret, trace>>

Calls == DOMAIN pc

\* The ways a call ends.  Pending: it has not ended.
Pending == [kind |-> "Pending", gas_used |-> 0, bytes |-> <<>>]

\* Err(PrecompileErrors::Error(PrecompileError::OutOfGas)), ed25519.rs:48
OutOfGas == [kind |-> "OutOfGas", gas_used |-> 0, bytes |-> <<>>]

\* Ok(PrecompileOutput::new(gas_used, bytes)), ed25519.rs:51-55
Ok(gas_used, bytes) == [kind |-> "Ok", gas_used |-> gas_used, bytes |-> bytes]

\* A panic (unwrap of an Err, slice index out of range, todo!): the call
\* unwinds and returns nothing.
Panic == [kind |-> "Panic", gas_used |-> 0, bytes |-> <<>>]

(***************************************************************************)
(* The conditions and expressions of the code                              *)
(***************************************************************************)
\* mutant: the comparison is >= instead of >
gas_insufficient_Ge(g) == ED25519VERIFY_BASE >= g

\* ed25519.rs:47  ED25519VERIFY_BASE > gas_limit
gas_insufficient(g) == ED25519VERIFY_BASE > g

\* mutant: off by one, a 159-byte input passes
too_short_OffByOne(inp) == Len(inp) < INPUT_LEN - 1

\* ed25519.rs:61  input.len() < 160
too_short(inp) == Len(inp) < INPUT_LEN

\* mutant: the key is taken from the end of the input
pk_window_FromEnd(inp) == Slice(inp, Len(inp) - PK_LEN, Len(inp))

\* ed25519.rs:70  input[128..160]
pk_window(inp) == Slice(inp, MSG_LEN + SIG_LEN, MSG_LEN + SIG_LEN + PK_LEN)

\* mutant: the flag is written to the first byte and the whole limit charged
output_FirstByte(g, result) ==
    Ok(g, [i \in 1..B256_LEN |-> IF i = 1 THEN as_u8(result) ELSE 0])

\* ed25519.rs:51-55  PrecompileOutput::new(ED25519VERIFY_BASE,
\*                       B256::with_last_byte(result as u8).into())
output(g, result) == Ok(ED25519VERIFY_BASE, with_last_byte(as_u8(result)))

\* mutant: the key bytes live in one zero-initialised buffer shared by all
\* calls, which the first call fills
key_bytes_Shared(c) == IF pk[1] = <<>> THEN Zeros(PK_LEN) ELSE pk[1]

\* ed25519.rs:75  the argument &pk of VerifyingKey::from_bytes
key_bytes(c) == pk[c]

Step(c, name) == trace' = [trace EXCEPT ![c] = Append(@, name)]

Return(c, r) ==
    /\ ret' = [ret EXCEPT ![c] = r]
    /\ pc' = [pc EXCEPT ![c] = "done"]

(***************************************************************************)
(* ed25519_verify                                                          *)
(***************************************************************************)
\* mutant: verify_impl's length check runs before the gas check
GasCheck_AfterLenCheck(c) ==
    /\ pc[c] = "gas_check"
    /\ IF gas_insufficient(gas_limit[c])
       THEN /\ trace' = [trace EXCEPT ![c] = @ \o <<"len_check", "gas_check">>]
            /\ Return(c, OutOfGas)
       ELSE /\ Step(c, "gas_check")
            /\ pc' = [pc EXCEPT ![c] = "len_check"]
            /\ UNCHANGED ret
    /\ UNCHANGED <<input, gas_limit, msg, sig, pk, signature, public_key,
                   verified>>

\* ed25519.rs:47-49
GasCheck(c) ==
    /\ pc[c] = "gas_check"
    /\ Step(c, "gas_check")
    /\ IF gas_insufficient(gas_limit[c])
       THEN Return(c, OutOfGas)
       ELSE /\ pc' = [pc EXCEPT ![c] = "len_check"]
            /\ UNCHANGED ret
    /\ UNCHANGED <<input, gas_limit, msg, sig, pk, signature, public_key,
                   verified>>

\* ed25519.rs:50-55  the Option verify_impl returned is encoded
Encode(c) ==
    /\ pc[c] = "encode"
    /\ Step(c, "encode")
    /\ Return(c, output(gas_limit[c], verified[c] = "Some"))
    /\ UNCHANGED <<input, gas_limit, msg, sig, pk, signature, public_key,
                   verified>>

(***************************************************************************)
(* verify_impl                                                             *)
(***************************************************************************)
\* ed25519.rs:61-63
LenCheck(c) ==
    /\ pc[c] = "len_check"
    /\ Step(c, "len_check")
    /\ IF too_short(input[c])
       THEN /\ verified' = [verified EXCEPT ![c] = "None"]
            /\ pc' = [pc EXCEPT ![c] = "encode"]
       ELSE /\ pc' = [pc EXCEPT ![c] = "extract"]
            /\ UNCHANGED verified
    /\ UNCHANGED <<input, gas_limit, msg, sig, pk, signature, public_key, ret>>

\* ed25519.rs:66-70  three slices, each try_into().unwrap()'d to an array.
\* A range past the end of the input panics, as does a slice that is not of
\* the array's length.
Extract(c) ==
    /\ pc[c] = "extract"
    /\ Step(c, "extract")
    /\ IF Len(input[c]) < INPUT_LEN \/ Len(pk_window(input[c])) # PK_LEN
       THEN /\ Return(c, Panic)
            /\ UNCHANGED <<msg, sig, pk>>
       ELSE /\ msg' = [msg EXCEPT ![c] = Slice(input[c], 0, MSG_LEN)]
            /\ sig' = [sig EXCEPT ![c] =
                          Slice(input[c], MSG_LEN, MSG_LEN + SIG_LEN)]
            /\ pk' = [pk EXCEPT ![c] = pk_window(input[c])]
            /\ pc' = [pc EXCEPT ![c] = "sig_parse"]
            /\ UNCHANGED ret
    /\ UNCHANGED <<input, gas_limit, signature, public_key, verified>>

\* ed25519.rs:73  Signature::from_slice(sig).unwrap()
SigParse(c) ==
    /\ pc[c] = "sig_parse"
    /\ Step(c, "sig_parse")
    /\ IF from_slice(sig[c]).ok
       THEN /\ signature' = [signature EXCEPT ![c] = from_slice(sig[c])]
            /\ pc' = [pc EXCEPT ![c] = "key_decode"]
            /\ UNCHANGED ret
       ELSE /\ Return(c, Panic)
            /\ UNCHANGED signature
    /\ UNCHANGED <<input, gas_limit, msg, sig, pk, public_key, verified>>

\* mutant: VerifyingKey::from_bytes(&pk).unwrap() instead of .ok()?
KeyDecode_Unwrap(c) ==
    /\ pc[c] = "key_decode"
    /\ Step(c, "key_decode")
    /\ IF from_bytes(key_bytes(c)).ok
       THEN /\ public_key' = [public_key EXCEPT ![c] = from_bytes(key_bytes(c))]
            /\ pc' = [pc EXCEPT ![c] = "verify"]
            /\ UNCHANGED ret
       ELSE /\ Return(c, Panic)
            /\ UNCHANGED public_key
    /\ UNCHANGED <<input, gas_limit, msg, sig, pk, signature, verified>>

\* ed25519.rs:75  VerifyingKey::from_bytes(&pk).ok()?
KeyDecode(c) ==
    /\ pc[c] = "key_decode"
    /\ Step(c, "key_decode")
    /\ IF from_bytes(key_bytes(c)).ok
       THEN /\ public_key' = [public_key EXCEPT ![c] = from_bytes(key_bytes(c))]
            /\ pc' = [pc EXCEPT ![c] = "verify"]
            /\ UNCHANGED verified
       ELSE /\ verified' = [verified EXCEPT ![c] = "None"]
            /\ pc' = [pc EXCEPT ![c] = "encode"]
            /\ UNCHANGED public_key
    /\ UNCHANGED <<input, gas_limit, msg, sig, pk, signature, ret>>

\* ed25519.rs:77-84  the verification is commented out; the statement in its
\* place is todo!("accept unbounded input, meter with prehashed"), a panic.
Verify(c) ==
    /\ pc[c] = "verify"
    /\ Step(c, "verify")
    /\ Return(c, Panic)
    /\ UNCHANGED <<input, gas_limit, msg, sig, pk, signature, public_key,
                   verified>>

Next ==
    \/ \E c \in Calls : GasCheck(c)
    \/ \E c \in Calls : LenCheck(c)
    \/ \E c \in Calls : Extract(c)
    \/ \E c \in Calls : SigParse(c)
    \/ \E c \in Calls : KeyDecode(c)
    \/ \E c \in Calls : Verify(c)
    \/ \E c \in Calls : Encode(c)

(***************************************************************************)
(* Signing (spec.md 4.2 step 6 and 8: "a valid (digest, signature, public  *)
(* key) triple produced by signing digest with the matching private key"). *)
(* The source holds no signing or verification code (ed25519.rs:77-84 is   *)
(* commented out), so the triples the claims speak of are built here by    *)
(* EdDSA signing on the curve of from_bytes: A = a.B, R = r.B,             *)
(* s = r + H(R, A, M).a mod GroupOrder.  Only the claims' preconditions    *)
(* use it; no action does.                                                 *)
(***************************************************************************)
\* the order of BasePoint
GroupOrder == 5

BasePoint == [ok |-> TRUE, x |-> 4, y |-> 8]

Identity == [ok |-> TRUE, x |-> 0, y |-> 1]

Inverse(a) == CHOOSE b \in 1..(FieldPrime - 1) : (a * b) % FieldPrime = 1

\* twisted Edwards addition, a = -1
PointAdd(P, Q) ==
    LET t == (EDWARDS_D * P.x * Q.x * P.y * Q.y) % FieldPrime
    IN  [ok |-> TRUE,
         x |-> ((P.x * Q.y + P.y * Q.x) * Inverse((1 + t) % FieldPrime))
                   % FieldPrime,
         y |-> ((P.y * Q.y + P.x * Q.x)
                   * Inverse((1 + FieldPrime - t) % FieldPrime)) % FieldPrime]

RECURSIVE ScalarMul(_, _)
ScalarMul(k, P) == IF k = 0 THEN Identity ELSE PointAdd(P, ScalarMul(k - 1, P))

\* 32 bytes: y little-endian, the sign (parity) of x in bit 255
Compress(P) == <<P.y>> \o Zeros(PK_LEN - 2) \o <<128 * (P.x % 2)>>

\* 32 bytes: the scalar little-endian
ScalarBytes(k) == <<k>> \o Zeros(PK_LEN - 1)

\* stands for SHA-512(R || A || M) reduced modulo the group order
HashToScalar(R, A, M) ==
    SumBytes(R \o A \o M, 1, Len(R) + Len(A) + Len(M)) % GroupOrder

\* the signature of digest M under the private scalar a with nonce r
Sign(a, r, M) ==
    LET R == Compress(ScalarMul(r, BasePoint))
        A == Compress(ScalarMul(a, BasePoint))
    IN  R \o ScalarBytes((r + HashToScalar(R, A, M) * a) % GroupOrder)

\* digest || signature || public key: 160 bytes
Triple(a, r, M) == M \o Sign(a, r, M) \o Compress(ScalarMul(a, BasePoint))

\* the triples signed over the digest of inp
TriplesOf(inp) ==
    {Triple(a, r, Slice(inp, 0, MSG_LEN)) :
        a \in 1..(GroupOrder - 1), r \in 1..(GroupOrder - 1)}

\* the 160-byte window of inp is digest || Sign(a, r, digest) || a.B
ValidTriple(inp) ==
    /\ Len(inp) >= INPUT_LEN
    /\ Slice(inp, 0, INPUT_LEN) \in TriplesOf(inp)

\* the number of bits in which the bytes a and b differ
BitsDiffer(a, b) ==
    Cardinality({k \in 0..7 : (a \div (2 ^ k)) % 2 # (b \div (2 ^ k)) % 2})

\* the number of bits in which u and v differ (same length)
Hamming(u, v) ==
    SumBytes([i \in 1..Len(u) |-> BitsDiffer(u[i], v[i])], 1, Len(u))

\* the window of inp is a valid triple with exactly one bit of the signature
\* or of the public key flipped (the digests agree by construction)
FlippedValidTriple(inp) ==
    /\ Len(inp) >= INPUT_LEN
    /\ \E t \in TriplesOf(inp) : Hamming(Slice(inp, 0, INPUT_LEN), t) = 1

(***************************************************************************)
(* The inputs of the model                                                 *)
(***************************************************************************)
\* digest m, m, ... || R = (ry, sign rs) || s || key = (ay, sign as)
Window(m, ry, rs, s, ay, as) ==
    [i \in 1..MSG_LEN |-> m]
        \o (<<ry>> \o Zeros(PK_LEN - 2) \o <<128 * rs>>)
        \o ScalarBytes(s)
        \o (<<ay>> \o Zeros(PK_LEN - 2) \o <<128 * as>>)

\* the first n bytes of the window w followed by 255, 255, ...
Prefix(w, n) ==
    IF n <= INPUT_LEN THEN SubSeq(w, 1, n)
    ELSE w \o [i \in 1..(n - INPUT_LEN) |-> 255]

GasLimits ==
    {0} \cup ((ED25519VERIFY_BASE - GasSlack)..(ED25519VERIFY_BASE + GasSlack))

\* every length with a few windows, and every window at the lengths from 160
Inputs ==
    {Prefix(Window(1, 8, 0, 1, ay, as), n) :
        ay \in 0..MaxCoord, as \in 0..1, n \in 0..MaxLen}
    \cup
    {Prefix(Window(1, ry, rs, s, ay, as), n) :
        ry \in 0..MaxCoord, rs \in 0..1, s \in 0..MaxScalar,
        ay \in 0..MaxCoord, as \in 0..1, n \in {INPUT_LEN, MaxLen}}

PairInputs ==
    {Prefix(Window(1, 8, 0, 1, ay, 0), n) :
        ay \in 0..MaxPairCoord,
        n \in (INPUT_LEN - PairSlack)..(INPUT_LEN + PairSlack)}

PairGasLimits == {ED25519VERIFY_BASE - 1, ED25519VERIFY_BASE}

\* the state at the entry of the calls cs with the arguments inp, gas
Entry(cs, inp, gas) ==
    /\ input = inp
    /\ gas_limit = gas
    /\ pc = [c \in cs |-> "gas_check"]
    /\ msg = [c \in cs |-> <<>>]
    /\ sig = [c \in cs |-> <<>>]
    /\ pk = [c \in cs |-> <<>>]
    /\ signature = [c \in cs |-> from_slice(<<>>)]
    /\ public_key = [c \in cs |-> NoPoint]
    /\ verified = [c \in cs |-> ""]
    /\ ret = [c \in cs |-> Pending]
    /\ trace = [c \in cs |-> <<>>]

\* one call
Init ==
    \E inp \in Inputs, gas \in GasLimits :
        Entry({1}, [c \in {1} |-> inp], [c \in {1} |-> gas])

\* two calls in flight at once
InitPair ==
    \E inp \in [{1, 2} -> PairInputs], gas \in [{1, 2} -> PairGasLimits] :
        Entry({1, 2}, inp, gas)

Spec == Init /\ [][Next]_vars

SpecPair == InitPair /\ [][Next]_vars


(***************************************************************************)
(* Properties                                                              *)
(***************************************************************************)
Done(c) == pc[c] = "done"

EnoughGas(c) == gas_limit[c] >= 3450

ZeroWord == <<0, 0, 0, 0, 0, 0, 0, 0, 0, 0, 0, 0, 0, 0, 0, 0,
              0, 0, 0, 0, 0, 0, 0, 0, 0, 0, 0, 0, 0, 0, 0, 0>>

OneWord == <<0, 0, 0, 0, 0, 0, 0, 0, 0, 0, 0, 0, 0, 0, 0, 0,
             0, 0, 0, 0, 0, 0, 0, 0, 0, 0, 0, 0, 0, 0, 0, 1>>

Success(word) == [kind |-> "Ok", gas_used |-> 3450, bytes |-> word]

\* bytes 128..160 of inp are the encoding of no point: with y their
\* little-endian value (bit 255 cleared), no x satisfies the curve equation
\* -x^2 + y^2 = 1 + d x^2 y^2
KeyOffCurve(inp) ==
    LET key == SubSeq(inp, 129, 160)
        y == LittleEndianMod([key EXCEPT ![32] = @ % 128], 1, FieldPrime)
    IN  \A x \in 0..(FieldPrime - 1) :
            (y * y + FieldPrime * FieldPrime - x * x) % FieldPrime
                # (1 + EDWARDS_D * x * x * y * y) % FieldPrime

\* C1: every call that has ended has returned OutOfGas or a success; none
\* has ended in a panic.
C1_Total ==
    \A c \in Calls : Done(c) => ret[c].kind \in {"OutOfGas", "Ok"}

\* C2: a call on a valid (digest, signature, public key) triple with
\* gas_limit >= BASE_COST returns success, gas_used = BASE_COST, a 32-byte
\* output with last byte 1.
C2_ValidTripleVerifies ==
    \A c \in Calls :
        (Done(c) /\ EnoughGas(c) /\ ValidTriple(input[c]))
            => ret[c] = Success(OneWord)

\* C3: a call returns OutOfGas if and only if gas_limit < BASE_COST,
\* whatever the input.
C3_OutOfGasIffBelowBase ==
    \A c \in Calls :
        Done(c) => (ret[c] = OutOfGas <=> gas_limit[c] < 3450)

C3_Witness ==
    \E c \in Calls :
        /\ Done(c) /\ gas_limit[c] = 3449 /\ ret[c] = OutOfGas
        /\ Len(input[c]) >= 160

\* C4: a call on an input shorter than 160 bytes with gas_limit >= BASE_COST
\* returns success with gas_used = BASE_COST and 32 zero bytes.
C4_ShortInputIsZero ==
    \A c \in Calls :
        (Done(c) /\ EnoughGas(c) /\ Len(input[c]) < 160)
            => ret[c] = Success(ZeroWord)

C4_Witness ==
    \E c \in Calls :
        /\ Done(c) /\ EnoughGas(c) /\ Len(input[c]) = 159
        /\ ret[c] = Success(ZeroWord)

\* C5: a call on an input of at least 160 bytes whose bytes 128..160 are
\* not a curve point, with gas_limit >= BASE_COST, returns success with
\* gas_used = BASE_COST and last byte 0, and never reaches the verification.
C5_BadKeyIsZero ==
    \A c \in Calls :
        (EnoughGas(c) /\ Len(input[c]) >= 160 /\ KeyOffCurve(input[c]))
            => /\ \A i \in 1..Len(trace[c]) : trace[c][i] # "verify"
               /\ pc[c] # "verify"
               /\ ret[c].kind # "Panic"
               /\ Done(c) => ret[c] = Success(ZeroWord)

C5_Witness ==
    \E c \in Calls :
        /\ Done(c) /\ EnoughGas(c) /\ Len(input[c]) >= 160
        /\ KeyOffCurve(input[c])
        /\ ret[c] = Success(ZeroWord)
        /\ trace[c][Len(trace[c]) - 1] = "key_decode"

\* C6: a call on a valid triple with one bit of the signature or of the
\* public key flipped, with gas_limit >= BASE_COST, returns success with
\* gas_used = BASE_COST and last byte 0.
C6_FlippedBitRejected ==
    \A c \in Calls :
        (Done(c) /\ EnoughGas(c) /\ FlippedValidTriple(input[c])
                 /\ ~ValidTriple(input[c]))
            => ret[c] = Success(ZeroWord)

\* C7: a call on I ++ T and a call on I[0..160] with the same gas_limit end
\* the same way (Len(I) >= 160), and a success charges exactly BASE_COST.
C7_TrailingBytesIgnored ==
    \A c \in Calls, e \in Calls :
        (/\ Done(c) /\ Done(e)
         /\ Len(input[c]) >= 160
         /\ input[e] = SubSeq(input[c], 1, 160)
         /\ gas_limit[e] = gas_limit[c])
            => /\ ret[c] = ret[e]
               /\ ret[c].kind = "Ok" => ret[c].gas_used = 3450

C7_Witness ==
    \E c \in Calls, e \in Calls :
        /\ Done(c) /\ Done(e)
        /\ Len(input[c]) > 160
        /\ input[e] = SubSeq(input[c], 1, 160)
        /\ gas_limit[e] = gas_limit[c]
        /\ ret[c].kind = "Ok" /\ ret[e] = ret[c]

\* C8: the gas check is the first statement a call executes, and a call with
\* gas_limit < BASE_COST executes no other statement: no length check, no
\* field extraction, no key decoding, no verification.
C8_GasCheckFirst ==
    \A c \in Calls :
        /\ trace[c] # <<>> => trace[c][1] = "gas_check"
        /\ trace[c] = <<>> => pc[c] = "gas_check"
        /\ gas_limit[c] < 3450 =>
              /\ \A i \in 1..Len(trace[c]) : trace[c][i] = "gas_check"
              /\ msg[c] = <<>> /\ sig[c] = <<>> /\ pk[c] = <<>>
              /\ ~public_key[c].ok /\ verified[c] = ""
              /\ Done(c) => trace[c] = <<"gas_check">>

C8_Witness ==
    \E c \in Calls :
        /\ Done(c) /\ gas_limit[c] < 3450 /\ Len(input[c]) >= 160
        /\ ~KeyOffCurve(input[c])
        /\ trace[c] = <<"gas_check">>

\* C9: every success has gas_used = BASE_COST <= gas_limit and an output of
\* exactly 32 bytes, bytes 0..30 zero and byte 31 zero or one; so every
\* output reporting a failure is the same 32 zero bytes.
C9_SuccessShape ==
    \A c \in Calls :
        ret[c].kind = "Ok" =>
            /\ ret[c].gas_used = 3450
            /\ ret[c].gas_used <= gas_limit[c]
            /\ Len(ret[c].bytes) = 32
            /\ \A i \in 1..31 : ret[c].bytes[i] = 0
            /\ ret[c].bytes[32] \in {0, 1}
            /\ ret[c].bytes[32] = 0 => ret[c].bytes = ZeroWord

C9_Witness ==
    \E c \in Calls :
        /\ ret[c].kind = "Ok" /\ gas_limit[c] > 3450
        /\ Len(input[c]) >= 160 /\ ret[c].bytes[32] = 0

\* every step changes the entries of one call and of no other
OneCallSteps ==
    \E c \in Calls : \A e \in Calls \ {c} :
        /\ input'[e] = input[e] /\ gas_limit'[e] = gas_limit[e]
        /\ pc'[e] = pc[e] /\ msg'[e] = msg[e] /\ sig'[e] = sig[e]
        /\ pk'[e] = pk[e] /\ signature'[e] = signature[e]
        /\ public_key'[e] = public_key[e] /\ verified'[e] = verified[e]
        /\ ret'[e] = ret[e] /\ trace'[e] = trace[e]

SameArguments(c, e) == input[c] = input[e] /\ gas_limit[c] = gas_limit[e]

\* two calls with the same (input, gas_limit) end the same way
Deterministic ==
    \A c \in Calls, e \in Calls :
        (Done(c) /\ Done(e) /\ SameArguments(c, e)) => ret[c] = ret[e]

\* C10: two calls with identical (input, gas_limit), interleaved in any
\* order, end with identical results, and no step of one call changes
\* anything of the other.
C10_Deterministic == []Deterministic /\ [][OneCallSteps]_vars

C10_Witness ==
    \E c \in Calls, e \in Calls :
        /\ c # e /\ Done(c) /\ Done(e) /\ SameArguments(c, e)
        /\ ret[c].kind = "Ok" /\ ret[e] = ret[c]
        /\ Len(input[c]) >= 160

=============================================================================
